---- MODULE Spec2Model ----
(***************************************************************************)
(* Model of the 2143-OOP cellular-automaton programs:                      *)
(*   - Assignments/Program_04/main.cpp : the Game of Life driver (defaults *)
(*     merge, SdlScreen, ConwayLife, the render/step/pause loop);          *)
(*   - Screen.hpp (unnamed/part_000)   : Screen / SdlScreen;               *)
(*   - the SDL2 shape viewer (unnamed/part_001).                           *)
(* Each program part has its own specification over the shared variables; *)
(* the variables of the other parts stay at their idle values.             *)
(***************************************************************************)
EXTENDS Integers, Sequences, FiniteSets, TLC

VARIABLES
    \* ---- Program_04 main: defaults merge ----
    argsJson,      \* the object returned by ArgsToJson(argc, argv)
    params,        \* json params
    defaults,      \* the global json defaults
    mergeIdx,      \* position of the range-for over defaults.items()
    pcM,           \* "idle" | "merge" | "merged"
    \* ---- Program_04 main: SdlScreen, ConwayLife, simulation loop ----
    pc,            \* position of main
    grid,          \* ConwayLife's grid (vector<vector<int>>)
    rows, cols,    \* the constructor arguments of ConwayLife
    cellSize, windowWidth, windowHeight,   \* SdlScreen fields
    running,       \* main's loop flag
    evq,           \* SDL's event queue
    sdlCalls,      \* SDL lifecycle calls issued so far, in order
    frame,         \* drawing calls issued by the last render()
    shown,         \* the grid handed to the last render()
    frames,        \* number of render() calls of main's loop so far
    steps,         \* number of gol.step() calls so far
    grid0,         \* the grid as ConwayLife's constructor left it
    \* ---- shape viewer ----
    vpc,           \* position of the viewer's main
    shape,         \* shape.cells (sequence of [x, y])
    vCellSize, vWinW, vWinH, gridWidth, gridHeight,
    offsetX, offsetY,
    vRunning,      \* the viewer's loop flag
    vEvq,          \* SDL's event queue
    vSdl,          \* SDL lifecycle calls issued so far, in order
    lineX,         \* loop variable of the current grid-line loop
    rects,         \* rectangles filled for the shape in the current frame
    quitFrames,    \* frames presented since running became false
    posted,        \* events posted to the viewer so far
    ret            \* return value of main, -1 while it has not returned

mergeVars == <<argsJson, params, defaults, mergeIdx, pcM>>
lifeVars == <<pc, grid, rows, cols, cellSize, windowWidth, windowHeight,
              running, evq, sdlCalls, frame, shown, frames, steps, grid0>>
viewVars == <<vpc, shape, vCellSize, vWinW, vWinH, gridWidth, gridHeight,
              offsetX, offsetY, vRunning, vEvq, vSdl, lineX, rects,
              quitFrames, posted, ret>>
vars == <<mergeVars, lifeVars, viewVars>>

MergeIdle ==
    /\ argsJson = <<>> /\ params = <<>> /\ defaults = <<>>
    /\ mergeIdx = 0 /\ pcM = "idle"

LifeIdle ==
    /\ pc = "idle" /\ grid = <<>> /\ rows = 0 /\ cols = 0
    /\ cellSize = 0 /\ windowWidth = 0 /\ windowHeight = 0
    /\ running = FALSE /\ evq = <<>> /\ sdlCalls = <<>>
    /\ frame = <<>> /\ shown = <<>> /\ frames = 0 /\ steps = 0 /\ grid0 = <<>>

ViewIdle ==
    /\ vpc = "idle" /\ shape = <<>> /\ vCellSize = 0 /\ vWinW = 0 /\ vWinH = 0
    /\ gridWidth = 0 /\ gridHeight = 0 /\ offsetX = 0 /\ offsetY = 0
    /\ vRunning = FALSE /\ vEvq = <<>> /\ vSdl = <<>> /\ lineX = 0
    /\ rects = <<>> /\ quitFrames = 0 /\ posted = 0 /\ ret = -1

(***************************************************************************)
(* Program_04 main: the defaults merge (main.cpp 23-42)                    *)
(***************************************************************************)

\* Largest value a user gives on the command line (key=value).
MaxUserVal == 2

UserVals == 1..MaxUserVal

\* json defaults = {{"width", 800}, ...}
DefaultsJson ==
    [width |-> 800, height |-> 600, generations |-> 1000,
     cellSize |-> 10, frameDelayMs |-> 500]

\* defaults.items() iterates an nlohmann object in key order.
DefaultKeyOrder == <<"cellSize", "frameDelayMs", "generations", "height", "width">>

\* Keys a user may give: the five of defaults and one that is not in defaults.
UserKeys == (DOMAIN DefaultsJson) \cup {"shape"}

ArgsObjects == UNION {[K -> UserVals] : K \in SUBSET UserKeys}

\* json::operator[](key) = value on an object: insert or assign.
JsonSet(obj, key, value) ==
    [k \in (DOMAIN obj) \cup {key} |-> IF k = key THEN value ELSE obj[k]]

MergeKeyOverwrite(p, d, key) == JsonSet(p, key, d[key])

\* The body of the range-for: if (params.find(key) == params.end()) params[key] = value;
MergeKey(p, d, key) ==
    IF key \notin DOMAIN p THEN JsonSet(p, key, d[key]) ELSE p

InitMerge ==
    /\ argsJson \in ArgsObjects
    /\ params = argsJson
    /\ defaults = DefaultsJson
    /\ mergeIdx = 1
    /\ pcM = "merge"
    /\ LifeIdle /\ ViewIdle

MergeStep ==
    /\ pcM = "merge"
    /\ mergeIdx <= Len(DefaultKeyOrder)
    /\ params' = MergeKey(params, defaults, DefaultKeyOrder[mergeIdx])
    /\ mergeIdx' = mergeIdx + 1
    /\ UNCHANGED <<argsJson, defaults, pcM, lifeVars, viewVars>>

MergeExit ==
    /\ pcM = "merge"
    /\ mergeIdx > Len(DefaultKeyOrder)
    /\ pcM' = "merged"
    /\ UNCHANGED <<argsJson, params, defaults, mergeIdx, lifeVars, viewVars>>

NextMerge == MergeStep \/ MergeExit

SpecMerge == InitMerge /\ [][NextMerge]_vars

\* C4: after the merge, every key of defaults holds the user's value if the
\* user gave one and the default otherwise; user keys that are not in
\* defaults keep their value; no other key appears; defaults is unmodified.
C4_MergeDefaults ==
    pcM = "merged" =>
        /\ DOMAIN params = (DOMAIN argsJson) \cup (DOMAIN DefaultsJson)
        /\ \A k \in DOMAIN DefaultsJson :
              params[k] = IF k \in DOMAIN argsJson THEN argsJson[k]
                          ELSE DefaultsJson[k]
        /\ \A k \in (DOMAIN argsJson) \ (DOMAIN DefaultsJson) :
              params[k] = argsJson[k]
        /\ defaults = DefaultsJson

C4_Witness ==
    /\ pcM = "merged"
    /\ "width" \in DOMAIN argsJson
    /\ "height" \notin DOMAIN argsJson
    /\ "shape" \in DOMAIN argsJson
    /\ params["width"] = argsJson["width"]
    /\ params["height"] = 600

(***************************************************************************)
(* ConwayLife (includes/ConwayLife.hpp is not among the sources: the grid  *)
(* and step() follow the specification's data model and glossary)          *)
(***************************************************************************)

\* Largest grid the terminal size gives: ConwayLife gol(ws_row - 1, ws_col / 2).
MaxRows == 2
MaxCols == 3
\* Number of step() calls followed when the automaton is explored on its own.
MaxSteps == 2

\* A rows x cols grid of cell states, alive = 1, dead = 0.
Grids(r, c) == [1..r -> [1..c -> {0, 1}]]

\* The state of cell (r, c), 0 outside the grid.
CellAt(g, r, c) ==
    IF r \in 1..Len(g) /\ c \in 1..Len(g[r]) THEN g[r][c] ELSE 0

\* Live cells among the eight neighbours of (r, c).
countNeighbors(g, r, c) ==
      CellAt(g, r - 1, c - 1) + CellAt(g, r - 1, c) + CellAt(g, r - 1, c + 1)
    + CellAt(g, r, c - 1)                           + CellAt(g, r, c + 1)
    + CellAt(g, r + 1, c - 1) + CellAt(g, r + 1, c) + CellAt(g, r + 1, c + 1)

\* Birth / survival / death by live-neighbour count.
rule(alive, n) ==
    IF alive = 1
    THEN (IF n = 2 \/ n = 3 THEN 1 ELSE 0)
    ELSE (IF n = 3 THEN 1 ELSE 0)

\* g with cell (r, c) set to v.
SetCell(g, r, c, v) == [g EXCEPT ![r] = [g[r] EXCEPT ![c] = v]]

RECURSIVE InPlaceFrom(_, _)
\* Cells k, k+1, ... (row-major) updated one after the other in g itself.
InPlaceFrom(g, k) ==
    IF Len(g) = 0 \/ k > Len(g) * Len(g[1]) THEN g
    ELSE LET r == ((k - 1) \div Len(g[1])) + 1
             c == ((k - 1) % Len(g[1])) + 1
         IN  InPlaceFrom(SetCell(g, r, c, rule(g[r][c], countNeighbors(g, r, c))), k + 1)

\* step() without a second buffer: later cells see the cells already updated.
stepInPlace(g) == InPlaceFrom(g, 1)

\* step() storing the neighbour count instead of the rule's result.
stepStoreCount(g) ==
    [r \in 1..Len(g) |-> [c \in 1..Len(g[r]) |-> countNeighbors(g, r, c)]]

\* ConwayLife::step: the next generation, computed from the current one.
step(g) ==
    [r \in 1..Len(g) |->
        [c \in 1..Len(g[r]) |-> rule(g[r][c], countNeighbors(g, r, c))]]

(***************************************************************************)
(* SdlScreen (Screen.hpp, unnamed/part_000)                                *)
(***************************************************************************)

\* Largest cellSize tried when the screen is explored on its own.
MaxCellSize == 2

DrawCall(op, x, y, w, h, colour) ==
    [op |-> op, x |-> x, y |-> y, w |-> w, h |-> h, colour |-> colour]

SetColour(colour) == DrawCall("SetRenderDrawColor", 0, 0, 0, 0, colour)

\* The calls of the inner loop body for cell (row, col), 0-based as in the code.
CellCalls(g, row, col, cs) ==
    IF g[row + 1][col + 1] = 1
    THEN <<SetColour(IF g[row + 1][col + 1] = 1 THEN "white" ELSE "gray"),
           DrawCall("RenderFillRect", col * cs, row * cs, cs, cs, "")>>
    ELSE <<>>

RECURSIVE ColLoop(_, _, _, _)
\* for (col = ...; col < grid[row].size(); ++col)
ColLoop(g, row, col, cs) ==
    IF col < Len(g[row + 1])
    THEN CellCalls(g, row, col, cs) \o ColLoop(g, row, col + 1, cs)
    ELSE <<>>

RECURSIVE RowLoop(_, _, _)
\* for (row = ...; row < grid.size(); ++row)
RowLoop(g, row, cs) ==
    IF row < Len(g)
    THEN ColLoop(g, row, 0, cs) \o RowLoop(g, row + 1, cs)
    ELSE <<>>

\* render() that fills a rectangle for every cell, dead ones in gray.
RenderCallsAllCells(g, cs) ==
    <<SetColour("black"), DrawCall("RenderClear", 0, 0, 0, 0, ""), SetColour("white")>>
    \o [k \in 1..(Len(g) * Len(g[1])) |->
          DrawCall("RenderFillRect", ((k - 1) % Len(g[1])) * cs,
                   ((k - 1) \div Len(g[1])) * cs, cs, cs, "")]
    \o <<DrawCall("RenderPresent", 0, 0, 0, 0, "")>>

\* SdlScreen::render: the SDL drawing calls it issues, in order.
RenderCalls(g, cs) ==
    <<SetColour("black"), DrawCall("RenderClear", 0, 0, 0, 0, ""), SetColour("white")>>
    \o RowLoop(g, 0, cs)
    \o <<DrawCall("RenderPresent", 0, 0, 0, 0, "")>>

(***************************************************************************)
(* The automaton and the screen on their own: any grid, any cellSize, any  *)
(* interleaving of step() and render(getGrid()).                           *)
(***************************************************************************)

InitLife ==
    /\ pc = "life"
    /\ rows \in 1..MaxRows
    /\ cols \in 1..MaxCols
    /\ grid \in Grids(rows, cols)
    /\ grid0 = grid
    /\ cellSize \in 1..MaxCellSize
    /\ windowWidth = DefaultsJson.width
    /\ windowHeight = DefaultsJson.height
    /\ running = FALSE /\ evq = <<>> /\ sdlCalls = <<>>
    /\ frame = <<>> /\ shown = <<>> /\ frames = 0 /\ steps = 0
    /\ MergeIdle /\ ViewIdle

\* gol.step()
LifeStep ==
    /\ pc = "life"
    /\ steps < MaxSteps
    /\ grid' = step(grid)
    /\ steps' = steps + 1
    /\ UNCHANGED <<pc, rows, cols, cellSize, windowWidth, windowHeight, running,
                   evq, sdlCalls, frame, shown, frames, grid0, mergeVars, viewVars>>

\* screen.render(gol.getGrid())
LifeRender ==
    /\ pc = "life"
    /\ frame' = RenderCalls(grid, cellSize)
    /\ shown' = grid
    /\ UNCHANGED <<pc, grid, rows, cols, cellSize, windowWidth, windowHeight,
                   running, evq, sdlCalls, frames, steps, grid0, mergeVars, viewVars>>

NextLife == LifeStep \/ LifeRender

SpecLife == InitLife /\ [][NextLife]_vars

\* The positions of the grid that are neighbours of (r, c).
NeighbourCells(g, r, c) ==
    {p \in ((r - 1)..(r + 1)) \X ((c - 1)..(c + 1)) :
        /\ p # <<r, c>>
        /\ p[1] \in 1..Len(g)
        /\ p[2] \in 1..Len(g[1])}

LiveNeighbours(g, r, c) ==
    Cardinality({p \in NeighbourCells(g, r, c) : g[p[1]][p[2]] = 1})

\* C1: step() is synchronous Conway: every cell of the grid after the step is
\* decided by its own state and its live-neighbour count in the grid before the
\* step: live with 2 or 3 stays 1, dead with exactly 3 becomes 1, all others 0.
C1_StepIsConway ==
    [][steps' = steps + 1 =>
        /\ DOMAIN grid' = DOMAIN grid
        /\ \A r \in DOMAIN grid :
            /\ DOMAIN grid'[r] = DOMAIN grid[r]
            /\ \A c \in DOMAIN grid[r] :
                LET n == LiveNeighbours(grid, r, c)
                IN  grid'[r][c] =
                        IF (grid[r][c] = 1 /\ n \in {2, 3}) \/ (grid[r][c] = 0 /\ n = 3)
                        THEN 1 ELSE 0]_vars

\* One step from a grid with a survival (3 neighbours), a survival (2), a death
\* by overcrowding (4) and a birth (3); an in-place update would kill (1,3).
C1_Witness ==
    /\ steps = 1
    /\ grid0 = <<<<1, 1, 1>>, <<1, 1, 0>>>>
    /\ grid = <<<<1, 0, 1>>, <<1, 0, 1>>>>

\* C2: the grid keeps the dimensions it was constructed with and holds only
\* 0 and 1, at construction and after any number of steps.
C2_GridShape ==
    pc = "life" =>
        /\ Len(grid) = rows
        /\ \A r \in 1..Len(grid) :
            /\ Len(grid[r]) = cols
            /\ \A c \in 1..Len(grid[r]) : grid[r][c] \in {0, 1}

C2_Witness ==
    /\ pc = "life" /\ steps = MaxSteps
    /\ rows = 2 /\ cols = 3
    /\ grid # grid0
    /\ \E r \in 1..rows, c \in 1..cols : grid[r][c] = 1

\* The cells of g in row-major order, as <<row, col>> counted from 0.
CellsInOrder(g) ==
    [k \in 1..(Len(g) * Len(g[1])) |->
        <<(k - 1) \div Len(g[1]), (k - 1) % Len(g[1])>>]

IsLive(g, p) == g[p[1] + 1][p[2] + 1] = 1

IsFill(call) == call.op = "RenderFillRect"

\* C7 (the frame): render clears first, then fills exactly one rectangle per
\* live cell, at x = col*cellSize, y = row*cellSize, of size cellSize, and none
\* for any other cell, and presents once, as its last call.
C7_FrameOfRender ==
    (pc = "life" /\ frame # <<>>) =>
        LET live == SelectSeq(CellsInOrder(shown), LAMBDA p : IsLive(shown, p))
            fills == SelectSeq(frame, IsFill)
            n == Len(frame)
        IN  /\ frame[2].op = "RenderClear"
            /\ \A i \in 1..n : frame[i].op = "RenderClear" => i = 2
            /\ \A i \in 1..n : IsFill(frame[i]) => i > 2
            /\ frame[n].op = "RenderPresent"
            /\ \A i \in 1..n : frame[i].op = "RenderPresent" => i = n
            /\ Len(fills) = Len(live)
            /\ \A i \in 1..Len(live) :
                /\ fills[i].x = live[i][2] * cellSize
                /\ fills[i].y = live[i][1] * cellSize
                /\ fills[i].w = cellSize
                /\ fills[i].h = cellSize

\* C7: the frame a render issues is as above, and a render leaves the grid and
\* the SdlScreen fields as they were.
C7_Render ==
    /\ []C7_FrameOfRender
    /\ [][(frame' # frame \/ shown' # shown) =>
            UNCHANGED <<grid, cellSize, windowWidth, windowHeight>>]_vars

C7_Witness ==
    /\ pc = "life" /\ cellSize = 2
    /\ shown = <<<<0, 1, 0>>, <<1, 0, 1>>>>
    /\ Len(SelectSeq(frame, IsFill)) = 3
    /\ \E i \in 1..Len(frame) : IsFill(frame[i]) /\ frame[i].x = 4 /\ frame[i].y = 2

(***************************************************************************)
(* Program_04 main with the default parameters: SdlScreen screen,          *)
(* ConwayLife gol, and the simulation loop (main.cpp 68-119)               *)
(***************************************************************************)

\* Frames followed before the exploration stops (the loop itself is unbounded).
MaxFrames == 2
\* Events that can wait in SDL's queue at once.
MaxQueue == 1

\* SDL_QUIT, and any other event (mouse, keyboard, window).
MainEvents == {"SDL_QUIT", "OTHER"}

MainActive == pc \in {"loop", "poll", "render", "step", "pause", "pausePoll"}

InitMain ==
    /\ pc = "screen"
    /\ grid = <<>> /\ grid0 = <<>> /\ rows = 0 /\ cols = 0
    /\ cellSize = 0 /\ windowWidth = 0 /\ windowHeight = 0
    /\ running = FALSE /\ evq = <<>> /\ sdlCalls = <<>>
    /\ frame = <<>> /\ shown = <<>> /\ frames = 0 /\ steps = 0
    /\ MergeIdle /\ ViewIdle

\* SdlScreen::SdlScreen, SDL_Init succeeding: window and renderer are created.
MainScreen ==
    /\ pc = "screen"
    /\ cellSize' = DefaultsJson.cellSize
    /\ windowWidth' = DefaultsJson.width
    /\ windowHeight' = DefaultsJson.height
    /\ sdlCalls' = <<"SDL_Init", "SDL_CreateWindow", "SDL_CreateRenderer">>
    /\ pc' = "gol"
    /\ UNCHANGED <<grid, rows, cols, running, evq, frame, shown, frames, steps,
                   grid0, mergeVars, viewVars>>

\* SdlScreen::SdlScreen, SDL_Init failing: the constructor throws, nothing
\* catches it, and no SdlScreen exists.
MainScreenThrows ==
    /\ pc = "screen"
    /\ sdlCalls' = <<"SDL_Init">>
    /\ pc' = "terminated"
    /\ UNCHANGED <<grid, rows, cols, cellSize, windowWidth, windowHeight, running,
                   evq, frame, shown, frames, steps, grid0, mergeVars, viewVars>>

\* ConwayLife gol(w.ws_row - 1, w.ws_col / 2); Click click; bool running = true;
\* The terminal size (indeterminate if ioctl failed) gives any dimensions.
MainGol ==
    /\ pc = "gol"
    /\ \E r \in 1..MaxRows, c \in 1..MaxCols :
        /\ rows' = r /\ cols' = c
        /\ grid' \in Grids(r, c)
    /\ grid0' = grid'
    /\ running' = TRUE
    /\ pc' = "loop"
    /\ UNCHANGED <<cellSize, windowWidth, windowHeight, evq, sdlCalls, frame,
                   shown, frames, steps, mergeVars, viewVars>>

\* while (running), taken
MainLoopEnter ==
    /\ pc = "loop" /\ running
    /\ frames < MaxFrames
    /\ pc' = "poll"
    /\ UNCHANGED <<grid, rows, cols, cellSize, windowWidth, windowHeight, running,
                   evq, sdlCalls, frame, shown, frames, steps, grid0, mergeVars,
                   viewVars>>

\* while (running), left: return 0 destroys screen (~SdlScreen).
MainReturn ==
    /\ pc = "loop" /\ ~running
    /\ sdlCalls' = sdlCalls \o <<"SDL_DestroyRenderer", "SDL_DestroyWindow", "SDL_Quit">>
    /\ pc' = "returned"
    /\ UNCHANGED <<grid, rows, cols, cellSize, windowWidth, windowHeight, running,
                   evq, frame, shown, frames, steps, grid0, mergeVars, viewVars>>

\* while (SDL_PollEvent(&e)) with an event waiting; click.handleEvent(e) only
\* records the click that the loop prints.
MainPollEvent ==
    /\ pc = "poll" /\ evq # <<>>
    /\ running' = IF Head(evq) = "SDL_QUIT" THEN FALSE ELSE running
    /\ evq' = Tail(evq)
    /\ UNCHANGED <<pc, grid, rows, cols, cellSize, windowWidth, windowHeight,
                   sdlCalls, frame, shown, frames, steps, grid0, mergeVars, viewVars>>

\* while (SDL_PollEvent(&e)) with the queue empty
MainPollEmpty ==
    /\ pc = "poll" /\ evq = <<>>
    /\ pc' = "render"
    /\ UNCHANGED <<grid, rows, cols, cellSize, windowWidth, windowHeight, running,
                   evq, sdlCalls, frame, shown, frames, steps, grid0, mergeVars,
                   viewVars>>

\* screen.render(gol.getGrid());
MainRender ==
    /\ pc = "render"
    /\ frame' = RenderCalls(grid, cellSize)
    /\ shown' = grid
    /\ frames' = frames + 1
    /\ pc' = "step"
    /\ UNCHANGED <<grid, rows, cols, cellSize, windowWidth, windowHeight, running,
                   evq, sdlCalls, steps, grid0, mergeVars, viewVars>>

\* A loop body that advances two generations per frame.
MainStepTwice ==
    /\ pc = "step"
    /\ grid' = step(step(grid))
    /\ steps' = steps + 2
    /\ pc' = "pause"
    /\ UNCHANGED <<rows, cols, cellSize, windowWidth, windowHeight, running, evq,
                   sdlCalls, frame, shown, frames, grid0, mergeVars, viewVars>>

\* gol.step();
MainStep ==
    /\ pc = "step"
    /\ grid' = step(grid)
    /\ steps' = steps + 1
    /\ pc' = "pause"
    /\ UNCHANGED <<rows, cols, cellSize, windowWidth, windowHeight, running, evq,
                   sdlCalls, frame, shown, frames, grid0, mergeVars, viewVars>>

\* screen.pause(500): SDL_Delay(ms)
PauseDelay ==
    /\ pc = "pause"
    /\ pc' = "pausePoll"
    /\ UNCHANGED <<grid, rows, cols, cellSize, windowWidth, windowHeight, running,
                   evq, sdlCalls, frame, shown, frames, steps, grid0, mergeVars,
                   viewVars>>

\* pause's while (SDL_PollEvent(&event)) with an event waiting: SDL_QUIT calls
\* exit(0), which ends the process without destroying main's locals.
PausePollEvent ==
    /\ pc = "pausePoll" /\ evq # <<>>
    /\ pc' = IF Head(evq) = "SDL_QUIT" THEN "exited" ELSE pc
    /\ evq' = Tail(evq)
    /\ UNCHANGED <<grid, rows, cols, cellSize, windowWidth, windowHeight, running,
                   sdlCalls, frame, shown, frames, steps, grid0, mergeVars, viewVars>>

\* pause's while (SDL_PollEvent(&event)) with the queue empty: pause returns.
PausePollEmpty ==
    /\ pc = "pausePoll" /\ evq = <<>>
    /\ pc' = "loop"
    /\ UNCHANGED <<grid, rows, cols, cellSize, windowWidth, windowHeight, running,
                   evq, sdlCalls, frame, shown, frames, steps, grid0, mergeVars,
                   viewVars>>

\* The user or the window system posts an event.
MainPostEvent ==
    /\ MainActive
    /\ Len(evq) < MaxQueue
    /\ \E e \in MainEvents : evq' = Append(evq, e)
    /\ UNCHANGED <<pc, grid, rows, cols, cellSize, windowWidth, windowHeight,
                   running, sdlCalls, frame, shown, frames, steps, grid0, mergeVars,
                   viewVars>>

NextMain ==
    \/ MainScreen \/ MainScreenThrows \/ MainGol
    \/ MainLoopEnter \/ MainReturn
    \/ MainPollEvent \/ MainPollEmpty
    \/ MainRender \/ MainStep
    \/ PauseDelay \/ PausePollEvent \/ PausePollEmpty
    \/ MainPostEvent

Spec == InitMain /\ [][NextMain]_vars

\* The generation after p, by Conway's rule on live-neighbour sets.
ConwayNext(p) ==
    [r \in DOMAIN p |-> [c \in DOMAIN p[r] |->
        LET k == LiveNeighbours(p, r, c)
        IN  IF (p[r][c] = 1 /\ k \in {2, 3}) \/ (p[r][c] = 0 /\ k = 3)
            THEN 1 ELSE 0]]

RECURSIVE Generation(_, _)
\* The grid n generations after g.
Generation(g, n) ==
    IF n = 0 THEN g ELSE ConwayNext(Generation(g, n - 1))

MainStarted == MainActive \/ pc \in {"returned", "exited"}

\* The counters of the loop: a frame is rendered before the step of its
\* iteration and shows the grid after frames-1 steps; elsewhere the grid has
\* been stepped once per rendered frame.
FramesAndSteps ==
    MainStarted =>
        /\ pc = "step" => (frames >= 1 /\ steps = frames - 1 /\ shown = grid)
        /\ pc # "step" => steps = frames
        /\ frames = 0 => (grid = grid0 /\ shown = <<>>)
        /\ (frames = 1 /\ pc = "step") => shown = grid0

\* C3: each loop iteration renders, then steps once, then pauses: the first
\* frame shows the constructed grid, the n-th rendered frame shows the grid
\* after exactly n-1 steps, a render is followed by the step, the step by the
\* pause, and the pause by the next iteration's loop test.
C3_RenderStepPause ==
    /\ []FramesAndSteps
    /\ [][frames' # frames =>
            (pc = "render" /\ pc' = "step" /\ frames' = frames + 1 /\ shown' = grid
               /\ grid' = grid)]_vars
    /\ [][(MainActive /\ steps' # steps) =>
            (pc = "step" /\ pc' = "pause" /\ steps' = steps + 1)]_vars
    /\ [][(pc = "pausePoll" /\ pc' # pc) => pc' \in {"loop", "exited"}]_vars

C3_Witness ==
    /\ pc = "step" /\ frames = 2 /\ steps = 1
    /\ shown = Generation(grid0, 1)
    /\ shown # grid0

\* C6: however the process ends once the SdlScreen exists, ~SdlScreen has run:
\* SDL_DestroyRenderer, SDL_DestroyWindow, SDL_Quit, once each, in this order.
C6_ScreenDestroyedAtExit ==
    pc \in {"returned", "exited"} =>
        sdlCalls = <<"SDL_Init", "SDL_CreateWindow", "SDL_CreateRenderer",
                     "SDL_DestroyRenderer", "SDL_DestroyWindow", "SDL_Quit">>

(***************************************************************************)
(* The SDL2 shape viewer (unnamed/part_001)                                *)
(***************************************************************************)

\* Largest window width and height (pixels) a user gives, besides the defaults.
MaxWin == 4
\* Events posted to the viewer during a run.
MaxEvents == 2

Cell(x, y) == [x |-> x, y |-> y]

\* The "cells" of the entries of includes/shapes.json, by shape name.
ShapeLibrary ==
    [block   |-> <<Cell(0, 0), Cell(1, 0), Cell(0, 1), Cell(1, 1)>>,
     blinker |-> <<Cell(1, 0), Cell(1, 1), Cell(1, 2)>>]

\* What the user may type at "Enter shape name: ".
Choices == (DOMAIN ShapeLibrary) \cup {"nosuchshape"}

\* <<cell_size, width, height>>: user-given small values, or none given
\* (params.contains(...) ? (int)params[...] : 20 / 600 / 400).
ViewConfigs ==
    ((1..MaxCellSize) \X (1..MaxWin) \X (1..MaxWin)) \cup {<<20, 600, 400>>}

\* int / int of C++: the quotient truncated towards zero.
CDiv(a, b) ==
    IF (a >= 0) = (b > 0) THEN a \div b ELSE -((-a) \div b)

Min2(a, b) == IF a < b THEN a ELSE b
Max2(a, b) == IF a > b THEN a ELSE b

RECURSIVE MinOver(_, _, _)
\* The loop over shape.cells folding min (coord = "x" or "y") from acc.
MinOver(cells, coord, acc) ==
    IF cells = <<>> THEN acc
    ELSE MinOver(Tail(cells), coord, Min2(acc, Head(cells)[coord]))

RECURSIVE MaxOver(_, _, _)
MaxOver(cells, coord, acc) ==
    IF cells = <<>> THEN acc
    ELSE MaxOver(Tail(cells), coord, Max2(acc, Head(cells)[coord]))

\* An offset that centres the bounding box only if it starts at coordinate 0.
CentreOffsetNoMin(cells, coord, gridSize) ==
    LET lo == MinOver(cells, coord, cells[1][coord])
        hi == MaxOver(cells, coord, cells[1][coord])
    IN  CDiv(gridSize - (hi - lo + 1), 2)

\* offsetX / offsetY: (gridWidth - patternWidth) / 2 - minX.
CentreOffset(cells, coord, gridSize) ==
    LET lo == MinOver(cells, coord, cells[1][coord])
        hi == MaxOver(cells, coord, cells[1][coord])
    IN  CDiv(gridSize - (hi - lo + 1), 2) - lo

\* The SDL_Rect filled for each cell of the shape, in order.
ShapeRects(cells, offX, offY, cs) ==
    [i \in 1..Len(cells) |->
        [x |-> (cells[i].x + offX) * cs, y |-> (cells[i].y + offY) * cs,
         w |-> cs, h |-> cs]]

\* The events that end the loop: SDL_QUIT, and SDL_KEYDOWN with SDLK_ESCAPE.
QuitsOnAnyEscape(e) == e \in {"SDL_QUIT", "KEYDOWN_ESCAPE", "KEYUP_ESCAPE"}

QuitsOn(e) == e \in {"SDL_QUIT", "KEYDOWN_ESCAPE"}

ViewEvents == {"SDL_QUIT", "KEYDOWN_ESCAPE", "KEYUP_ESCAPE"}

ViewLoopPcs ==
    {"loop", "poll", "clear", "vlines", "hlines", "drawShape", "present", "delay"}

InitView ==
    /\ vpc = "open"
    /\ shape = <<>> /\ vCellSize = 0 /\ vWinW = 0 /\ vWinH = 0
    /\ gridWidth = 0 /\ gridHeight = 0 /\ offsetX = 0 /\ offsetY = 0
    /\ vRunning = FALSE /\ vEvq = <<>> /\ vSdl = <<>> /\ lineX = 0
    /\ rects = <<>> /\ quitFrames = 0 /\ posted = 0 /\ ret = -1
    /\ MergeIdle /\ LifeIdle

\* A return statement of main: the position reached and the value returned.
ViewReturn(at, value, calls) ==
    /\ vpc' = at
    /\ ret' = value
    /\ vSdl' = vSdl \o calls
    /\ UNCHANGED <<shape, vCellSize, vWinW, vWinH, gridWidth, gridHeight, offsetX,
                   offsetY, vRunning, vEvq, lineX, rects, quitFrames, posted,
                   mergeVars, lifeVars>>

\* A step to the next statement that changes nothing else.
ViewGoto(to) ==
    /\ vpc' = to
    /\ UNCHANGED <<shape, vCellSize, vWinW, vWinH, gridWidth, gridHeight, offsetX,
                   offsetY, vRunning, vEvq, vSdl, lineX, rects, quitFrames, posted,
                   ret, mergeVars, lifeVars>>

\* ifstream file("./includes/shapes.json"); if (!file.is_open()) return 1;
ViewOpenFails == vpc = "open" /\ ViewReturn("exitOpen", 1, <<>>)
ViewOpenOk == vpc = "open" /\ ViewGoto("parse")

\* try { file >> data; } catch (...) { return 1; }
ViewParseFails == vpc = "parse" /\ ViewReturn("exitParse", 1, <<>>)
ViewParseOk == vpc = "parse" /\ ViewGoto("shapesKey")

\* if (!data.contains("shapes")) return 1;
ViewNoShapesKey == vpc = "shapesKey" /\ ViewReturn("exitNoShapes", 1, <<>>)
ViewShapesKeyOk == vpc = "shapesKey" /\ ViewGoto("choose")

\* The shape-not-found return handing back 0.
ViewChooseReturnsZero(choice) ==
    /\ vpc = "choose"
    /\ IF choice \notin DOMAIN ShapeLibrary
       THEN ViewReturn("exitNotFound", 0, <<>>)
       ELSE /\ shape' = ShapeLibrary[choice]
            /\ vpc' = "config"
            /\ UNCHANGED <<vCellSize, vWinW, vWinH, gridWidth, gridHeight, offsetX,
                           offsetY, vRunning, vEvq, vSdl, lineX, rects, quitFrames,
                           posted, ret, mergeVars, lifeVars>>

\* cin >> choice; if (!shapes_data.contains(choice)) return 1; else the
\* shape's cells are read.
ViewChoose(choice) ==
    /\ vpc = "choose"
    /\ IF choice \notin DOMAIN ShapeLibrary
       THEN ViewReturn("exitNotFound", 1, <<>>)
       ELSE /\ shape' = ShapeLibrary[choice]
            /\ vpc' = "config"
            /\ UNCHANGED <<vCellSize, vWinW, vWinH, gridWidth, gridHeight, offsetX,
                           offsetY, vRunning, vEvq, vSdl, lineX, rects, quitFrames,
                           posted, ret, mergeVars, lifeVars>>

\* cellSize, windowWidth, windowHeight, gridWidth, gridHeight, offsetX, offsetY
ViewLayout(cfg) ==
    /\ vpc = "config"
    /\ vCellSize' = cfg[1] /\ vWinW' = cfg[2] /\ vWinH' = cfg[3]
    /\ gridWidth' = CDiv(cfg[2], cfg[1])
    /\ gridHeight' = CDiv(cfg[3], cfg[1])
    /\ offsetX' = CentreOffset(shape, "x", gridWidth')
    /\ offsetY' = CentreOffset(shape, "y", gridHeight')
    /\ vpc' = "sdlInit"
    /\ UNCHANGED <<shape, vRunning, vEvq, vSdl, lineX, rects, quitFrames, posted,
                   ret, mergeVars, lifeVars>>

\* if (SDL_Init(SDL_INIT_VIDEO) != 0) return 1;
ViewInitFails == vpc = "sdlInit" /\ ViewReturn("exitInit", 1, <<"SDL_Init_failed">>)

ViewInitOk ==
    /\ vpc = "sdlInit"
    /\ vSdl' = vSdl \o <<"SDL_Init">>
    /\ vpc' = "window"
    /\ UNCHANGED <<shape, vCellSize, vWinW, vWinH, gridWidth, gridHeight, offsetX,
                   offsetY, vRunning, vEvq, lineX, rects, quitFrames, posted, ret,
                   mergeVars, lifeVars>>

\* if (!window) { SDL_Quit(); return 1; }
ViewWindowFails ==
    vpc = "window" /\ ViewReturn("exitWindow", 1, <<"SDL_CreateWindow_failed", "SDL_Quit">>)

ViewWindowOk ==
    /\ vpc = "window"
    /\ vSdl' = vSdl \o <<"SDL_CreateWindow">>
    /\ vpc' = "renderer"
    /\ UNCHANGED <<shape, vCellSize, vWinW, vWinH, gridWidth, gridHeight, offsetX,
                   offsetY, vRunning, vEvq, lineX, rects, quitFrames, posted, ret,
                   mergeVars, lifeVars>>

\* A renderer failure path that forgets the window.
ViewRendererFailsLeakWindow ==
    vpc = "renderer"
    /\ ViewReturn("exitRenderer", 1, <<"SDL_CreateRenderer_failed", "SDL_Quit">>)

\* if (!renderer) { SDL_DestroyWindow(window); SDL_Quit(); return 1; }
ViewRendererFails ==
    vpc = "renderer"
    /\ ViewReturn("exitRenderer", 1,
                  <<"SDL_CreateRenderer_failed", "SDL_DestroyWindow", "SDL_Quit">>)

\* The renderer exists; bool running = true;
ViewRendererOk ==
    /\ vpc = "renderer"
    /\ vSdl' = vSdl \o <<"SDL_CreateRenderer">>
    /\ vRunning' = TRUE
    /\ vpc' = "loop"
    /\ UNCHANGED <<shape, vCellSize, vWinW, vWinH, gridWidth, gridHeight, offsetX,
                   offsetY, vEvq, lineX, rects, quitFrames, posted, ret, mergeVars,
                   lifeVars>>

\* while (running), taken
ViewLoopEnter == vpc = "loop" /\ vRunning /\ ViewGoto("poll")

\* while (running), left: cleanup and return 0
ViewCleanup ==
    vpc = "loop" /\ ~vRunning
    /\ ViewReturn("exitOk", 0, <<"SDL_DestroyRenderer", "SDL_DestroyWindow", "SDL_Quit">>)

\* while (SDL_PollEvent(&event)) with an event waiting
ViewPollEvent ==
    /\ vpc = "poll" /\ vEvq # <<>>
    /\ vRunning' = IF QuitsOn(Head(vEvq)) THEN FALSE ELSE vRunning
    /\ vEvq' = Tail(vEvq)
    /\ UNCHANGED <<vpc, shape, vCellSize, vWinW, vWinH, gridWidth, gridHeight,
                   offsetX, offsetY, vSdl, lineX, rects, quitFrames, posted, ret,
                   mergeVars, lifeVars>>

\* while (SDL_PollEvent(&event)) with the queue empty
ViewPollEmpty == vpc = "poll" /\ vEvq = <<>> /\ ViewGoto("clear")

\* SDL_RenderClear; then for (int x = 0; ...
ViewClear ==
    /\ vpc = "clear"
    /\ rects' = <<>>
    /\ lineX' = 0
    /\ vpc' = "vlines"
    /\ UNCHANGED <<shape, vCellSize, vWinW, vWinH, gridWidth, gridHeight, offsetX,
                   offsetY, vRunning, vEvq, vSdl, quitFrames, posted, ret, mergeVars,
                   lifeVars>>

\* for (int x = 0; x <= windowWidth; x += cellSize) SDL_RenderDrawLine(...);
\* then int y = 0 of the next loop.
ViewVLine ==
    /\ vpc = "vlines"
    /\ IF lineX <= vWinW
       THEN lineX' = lineX + vCellSize /\ vpc' = vpc
       ELSE lineX' = 0 /\ vpc' = "hlines"
    /\ UNCHANGED <<shape, vCellSize, vWinW, vWinH, gridWidth, gridHeight, offsetX,
                   offsetY, vRunning, vEvq, vSdl, rects, quitFrames, posted, ret,
                   mergeVars, lifeVars>>

\* for (int y = 0; y <= windowHeight; y += cellSize) SDL_RenderDrawLine(...);
ViewHLine ==
    /\ vpc = "hlines"
    /\ IF lineX <= vWinH
       THEN lineX' = lineX + vCellSize /\ vpc' = vpc
       ELSE lineX' = 0 /\ vpc' = "drawShape"
    /\ UNCHANGED <<shape, vCellSize, vWinW, vWinH, gridWidth, gridHeight, offsetX,
                   offsetY, vRunning, vEvq, vSdl, rects, quitFrames, posted, ret,
                   mergeVars, lifeVars>>

\* for (const auto& cell : shape.cells) SDL_RenderFillRect(renderer, &cellRect);
ViewDrawShape ==
    /\ vpc = "drawShape"
    /\ rects' = ShapeRects(shape, offsetX, offsetY, vCellSize)
    /\ vpc' = "present"
    /\ UNCHANGED <<shape, vCellSize, vWinW, vWinH, gridWidth, gridHeight, offsetX,
                   offsetY, vRunning, vEvq, vSdl, lineX, quitFrames, posted, ret,
                   mergeVars, lifeVars>>

\* SDL_RenderPresent(renderer);
ViewPresent ==
    /\ vpc = "present"
    /\ quitFrames' = IF vRunning THEN quitFrames ELSE quitFrames + 1
    /\ vpc' = "delay"
    /\ UNCHANGED <<shape, vCellSize, vWinW, vWinH, gridWidth, gridHeight, offsetX,
                   offsetY, vRunning, vEvq, vSdl, lineX, rects, posted, ret,
                   mergeVars, lifeVars>>

\* SDL_Delay(16);
ViewDelay == vpc = "delay" /\ ViewGoto("loop")

\* The user or the window system posts an event.
ViewPostEvent ==
    /\ vpc \in ViewLoopPcs
    /\ posted < MaxEvents
    /\ \E e \in ViewEvents : vEvq' = Append(vEvq, e)
    /\ posted' = posted + 1
    /\ UNCHANGED <<vpc, shape, vCellSize, vWinW, vWinH, gridWidth, gridHeight,
                   offsetX, offsetY, vRunning, vSdl, lineX, rects, quitFrames, ret,
                   mergeVars, lifeVars>>

\* The steps of the program itself.
ViewProgram ==
    \/ ViewOpenFails \/ ViewOpenOk
    \/ ViewParseFails \/ ViewParseOk
    \/ ViewNoShapesKey \/ ViewShapesKeyOk
    \/ \E choice \in Choices : ViewChoose(choice)
    \/ \E cfg \in ViewConfigs : ViewLayout(cfg)
    \/ ViewInitFails \/ ViewInitOk
    \/ ViewWindowFails \/ ViewWindowOk
    \/ ViewRendererFails \/ ViewRendererOk
    \/ ViewLoopEnter \/ ViewCleanup
    \/ ViewPollEvent \/ ViewPollEmpty
    \/ ViewClear \/ ViewVLine \/ ViewHLine \/ ViewDrawShape
    \/ ViewPresent \/ ViewDelay

NextView == ViewProgram \/ ViewPostEvent

\* The process keeps running: a program step that can be taken is taken.
SpecViewer == InitView /\ [][NextView]_vars /\ WF_vars(ViewProgram)

ViewLoadFailures == {"exitOpen", "exitParse", "exitNoShapes", "exitNotFound"}

\* C5: each load failure (file not opened, parse error, no "shapes" key, name
\* not a key of "shapes") returns 1, and no SDL call has been made by then.
C5_LoadFailures ==
    vpc \in ViewLoadFailures => (ret = 1 /\ vSdl = <<>>)

C5_Witness ==
    /\ vpc = "exitNotFound" /\ ret = 1 /\ vSdl = <<>>

CountOf(calls, name) == Cardinality({i \in 1..Len(calls) : calls[i] = name})

IndexOf(calls, name) == CHOOSE i \in 1..Len(calls) : calls[i] = name

\* C8: once SDL_Init has succeeded, main returns only after exactly one
\* SDL_Quit, its last SDL call; what was created is destroyed before it, the
\* renderer before the window, and nothing else is destroyed: window failure
\* returns 1 after SDL_Quit alone, renderer failure 1 after SDL_DestroyWindow,
\* SDL_Quit, and the loop's end 0 after SDL_DestroyRenderer, SDL_DestroyWindow,
\* SDL_Quit.
C8_ViewerCleanup ==
    (ret # -1 /\ CountOf(vSdl, "SDL_Init") > 0) =>
        /\ CountOf(vSdl, "SDL_Quit") = 1
        /\ vSdl[Len(vSdl)] = "SDL_Quit"
        /\ CountOf(vSdl, "SDL_DestroyWindow") = CountOf(vSdl, "SDL_CreateWindow")
        /\ CountOf(vSdl, "SDL_DestroyRenderer") = CountOf(vSdl, "SDL_CreateRenderer")
        /\ CountOf(vSdl, "SDL_CreateWindow") <= 1
        /\ CountOf(vSdl, "SDL_CreateRenderer") <= 1
        /\ CountOf(vSdl, "SDL_CreateRenderer") = 1 =>
              IndexOf(vSdl, "SDL_DestroyRenderer") < IndexOf(vSdl, "SDL_DestroyWindow")
        /\ vpc \in {"exitWindow", "exitRenderer", "exitOk"}
        /\ vpc = "exitWindow" =>
              (ret = 1 /\ vSdl = <<"SDL_Init", "SDL_CreateWindow_failed", "SDL_Quit">>)
        /\ vpc = "exitRenderer" =>
              (ret = 1 /\ vSdl = <<"SDL_Init", "SDL_CreateWindow",
                                   "SDL_CreateRenderer_failed", "SDL_DestroyWindow",
                                   "SDL_Quit">>)
        /\ vpc = "exitOk" =>
              (ret = 0 /\ vSdl = <<"SDL_Init", "SDL_CreateWindow", "SDL_CreateRenderer",
                                   "SDL_DestroyRenderer", "SDL_DestroyWindow",
                                   "SDL_Quit">>)

C8_Witness ==
    /\ vpc = "exitRenderer" /\ ret = 1
    /\ CountOf(vSdl, "SDL_DestroyWindow") = 1

QuitPending ==
    /\ vpc \in ViewLoopPcs
    /\ \E i \in 1..Len(vEvq) : vEvq[i] \in {"SDL_QUIT", "KEYDOWN_ESCAPE"}

\* C10: running turns false only when the poll loop takes an SDL_QUIT or an
\* ESC key-down from the queue, and never turns true again; the iteration that
\* polled it presents one more frame and the loop is left for the cleanup; and
\* (cellSize >= 1) a quit request in the queue leads to main returning 0.
C10_QuitEndsLoop ==
    /\ [][(vRunning /\ ~vRunning') =>
            (vpc = "poll" /\ vEvq # <<>>
               /\ Head(vEvq) \in {"SDL_QUIT", "KEYDOWN_ESCAPE"})]_vars
    /\ [][(vpc \in ViewLoopPcs /\ ~vRunning) => ~vRunning']_vars
    /\ [](quitFrames <= 1 /\ (vRunning => quitFrames = 0))
    /\ [](vpc = "exitOk" => (~vRunning /\ quitFrames = 1))
    /\ (QuitPending /\ vCellSize >= 1) ~> (vpc = "exitOk" /\ ret = 0)

C10_Witness ==
    /\ vpc = "exitOk" /\ ret = 0 /\ quitFrames = 1
    /\ posted = 2 /\ vEvq = <<"KEYUP_ESCAPE">>

(***************************************************************************)
(* The viewer's layout and drawing on their own: any shape, any window.    *)
(***************************************************************************)

\* Cell coordinates of a shape range over -1..MaxCoord.
MaxCoord == 1
\* Cells of a shape.
MaxCells == 2

Coords == (-1)..MaxCoord

CellSeqs == UNION {[1..n -> [x : Coords, y : Coords]] : n \in 1..MaxCells}

InitCentre ==
    /\ vpc = "config"
    /\ shape \in CellSeqs
    /\ vCellSize = 0 /\ vWinW = 0 /\ vWinH = 0
    /\ gridWidth = 0 /\ gridHeight = 0 /\ offsetX = 0 /\ offsetY = 0
    /\ vRunning = FALSE /\ vEvq = <<>> /\ vSdl = <<>> /\ lineX = 0
    /\ rects = <<>> /\ quitFrames = 0 /\ posted = 0 /\ ret = -1
    /\ MergeIdle /\ LifeIdle

\* The shape-drawing loop of a frame, right after the layout.
CentreDraw ==
    /\ vpc = "sdlInit"
    /\ rects' = ShapeRects(shape, offsetX, offsetY, vCellSize)
    /\ vpc' = "drawn"
    /\ UNCHANGED <<shape, vCellSize, vWinW, vWinH, gridWidth, gridHeight, offsetX,
                   offsetY, vRunning, vEvq, vSdl, lineX, quitFrames, posted, ret,
                   mergeVars, lifeVars>>

NextCentre == (\E cfg \in ViewConfigs : ViewLayout(cfg)) \/ CentreDraw

SpecCentre == InitCentre /\ [][NextCentre]_vars

SetMin(S) == CHOOSE m \in S : \A v \in S : m <= v
SetMax(S) == CHOOSE m \in S : \A v \in S : m >= v

\* The extent of the shape along coord fits in n grid cells.
Fits(coord, n) ==
    LET vs == {shape[i][coord] : i \in 1..Len(shape)}
    IN  SetMax(vs) - SetMin(vs) + 1 <= n

\* Along coord, every rectangle lies on a grid cell 0..n-1 and the free cells
\* before the first and after the last differ by at most one.
CentredAlong(coord, n) ==
    LET gs == {rects[i][coord] \div vCellSize : i \in 1..Len(rects)}
    IN  /\ \A i \in 1..Len(rects) :
            /\ rects[i][coord] % vCellSize = 0
            /\ rects[i][coord] \div vCellSize \in 0..(n - 1)
        /\ SetMin(gs) - ((n - 1) - SetMax(gs)) \in {-1, 0, 1}

\* C9: with gridWidth = windowWidth / cellSize, gridHeight = windowHeight /
\* cellSize and cellSize >= 1, a shape whose bounding box fits the grid is
\* drawn inside the grid, one rectangle per cell, with left/right and
\* top/bottom margins that differ by at most one cell, wherever the shape's
\* own coordinates start.
C9_ShapeCentred ==
    (vpc = "drawn" /\ vCellSize >= 1) =>
        /\ gridWidth = vWinW \div vCellSize
        /\ gridHeight = vWinH \div vCellSize
        /\ (Fits("x", gridWidth) /\ Fits("y", gridHeight)) =>
            /\ Len(rects) = Len(shape)
            /\ \A i \in 1..Len(rects) :
                /\ rects[i].x = (shape[i].x + offsetX) * vCellSize
                /\ rects[i].y = (shape[i].y + offsetY) * vCellSize
                /\ rects[i].w = vCellSize /\ rects[i].h = vCellSize
            /\ CentredAlong("x", gridWidth)
            /\ CentredAlong("y", gridHeight)

C9_Witness ==
    /\ vpc = "drawn" /\ vCellSize = 1 /\ vWinW = 3 /\ vWinH = 2
    /\ shape = <<Cell(-1, 1), Cell(0, 0)>>
    /\ Fits("x", gridWidth) /\ Fits("y", gridHeight)
    /\ rects = <<[x |-> 0, y |-> 1, w |-> 1, h |-> 1], [x |-> 1, y |-> 0, w |-> 1, h |-> 1]>>

====
